---- MODULE Spec2Model ----
(***************************************************************************)
(* Helpdesk ticket store of src/src/App.tsx: the model layer               *)
(* (TicketsModel), the controller with its listener registry               *)
(* (TicketsController) and the session storage document written by         *)
(* notify().                                                               *)
(*                                                                         *)
(* A controller call is a run of steps that nothing can interleave with    *)
(* (JavaScript runs a handler to completion): the model method is applied  *)
(* (pc "idle" -> "sync"), notify() writes the document ("sync" ->          *)
(* "notify"), Set.forEach invokes the listeners one by one, and the call   *)
(* returns ("return" -> "idle").  A call that does not reach notify() goes *)
(* from "idle" straight to "return"; an error leaving notify() would end   *)
(* the call in "thrown".  Loading the page again builds a new model from   *)
(* the stored document.                                                    *)
(***************************************************************************)
EXTENDS Integers, Sequences, FiniteSets, TLC

VARIABLES
    tickets,    \* TicketsModel.tickets: the array of Ticket records
    storage,    \* sessionStorage entry 'tickets_data'
    listeners,  \* TicketsController.listeners: a Set, kept in insertion order
    handles,    \* per callback: unsubscribe closures returned and not yet called
    now,        \* latest reading of Date.now(); the clock never goes back
    pc,         \* position of the controller call in progress
    call,       \* the call in progress: method, arguments, the model's result,
                \* what the controller returns, how the write of the document
                \* went, and what the call found when it was made (listeners,
                \* collection, clock)
    pos,        \* Set.forEach cursor: entries of listeners already passed
    invoked,    \* listeners invoked so far by the notification pass of this call
    held,       \* the ticket object a view keeps from getTicketById, as the view
                \* reads it now
    spent       \* per callback: an unsubscribe closure of it has been called and
                \* its caller still has it

vars ==
    <<tickets, storage, listeners, handles, now, pc, call, pos, invoked, held,
      spent>>

----------------------------------------------------------------------------
(* Bounds of the exploration *)

MaxTime == 6
MaxTickets == 3
MaxComments == 1
NumRand == 1
MaxHandles == 2

----------------------------------------------------------------------------
(* Types *)

Statuses == {"open", "in-progress", "waiting", "resolved", "closed"}

Priorities == {"low", "medium", "high", "urgent"}

Categories == {"technical", "billing", "account", "feature", "bug", "other"}

\* An optional number that is absent (resolvedAt?: number); Date.now() is never 0.
Unset == 0

\* An optional string that is absent (assignedTo?: string).
NoText == "<undefined>"

\* Date.now() when the module is loaded and DEFAULT_TICKETS is evaluated.
LoadTime == 5

\* 'ticket_<n>' of the seed data; generated ids are <<Date.now(), random suffix>>.
SeedId(n) == <<0, n>>

DEFAULT_TICKETS ==
    << [id |-> SeedId(1), title |-> "Erro ao fazer login", description |-> "login",
        category |-> "technical", priority |-> "high", status |-> "in-progress",
        author |-> "Joao Silva", assignedTo |-> "Suporte Tecnico",
        createdAt |-> LoadTime - 2, updatedAt |-> LoadTime - 1, resolvedAt |-> Unset,
        comments |-> << [id |-> <<0, 1>>, ticketId |-> SeedId(1),
                         author |-> "Suporte Tecnico", content |-> "investigando",
                         isInternal |-> FALSE, timestamp |-> LoadTime - 1] >>],
       [id |-> SeedId(2), title |-> "Cobranca duplicada", description |-> "reembolso",
        category |-> "billing", priority |-> "urgent", status |-> "open",
        author |-> "Maria Santos", assignedTo |-> NoText,
        createdAt |-> LoadTime - 3, updatedAt |-> LoadTime - 3, resolvedAt |-> Unset,
        comments |-> << >>],
       [id |-> SeedId(3), title |-> "Sugestao", description |-> "modo escuro",
        category |-> "feature", priority |-> "low", status |-> "resolved",
        author |-> "Pedro Costa", assignedTo |-> "Equipe de Produto",
        createdAt |-> LoadTime - 4, updatedAt |-> LoadTime - 3,
        resolvedAt |-> LoadTime - 3,
        comments |-> << [id |-> <<0, 2>>, ticketId |-> SeedId(3),
                         author |-> "Equipe de Produto", content |-> "roadmap",
                         isInternal |-> FALSE, timestamp |-> LoadTime - 3] >>] >>

----------------------------------------------------------------------------
(* TicketsModel *)

\* Object spread {...base, ...over} on records whose keys are Ticket's.
Merge(base, over) ==
    [f \in DOMAIN base |-> IF f \in DOMAIN over THEN over[f] ELSE base[f]]

\* this.tickets.findIndex(t => t.id === id), 1-based; 0 for -1.
findIndex(tks, id) ==
    IF \E i \in 1..Len(tks) : tks[i].id = id
    THEN CHOOSE i \in 1..Len(tks) :
             /\ tks[i].id = id
             /\ \A j \in 1..(i - 1) : tks[j].id # id
    ELSE 0

\* getTicketById(id) !== null
hasTicket(tks, id) == findIndex(tks, id) # 0

\* The fields a draft leaves out are absent on the new object.
BlankTicket ==
    [id |-> <<0, 0>>, title |-> "", description |-> "", category |-> "other",
     priority |-> "low", status |-> "open", author |-> "", assignedTo |-> NoText,
     createdAt |-> Unset, updatedAt |-> Unset, resolvedAt |-> Unset,
     comments |-> << >>]

\* createTicket: {...ticket, id, createdAt, updatedAt, comments: []} pushed.
createTicket(tks, draft, newId, tCreated, tUpdated) ==
    Append(tks, Merge(Merge(BlankTicket, draft),
                      [id |-> newId, createdAt |-> tCreated,
                       updatedAt |-> tUpdated, comments |-> << >>]))

\* The stamp without its !resolvedAt test: every resolution stamps again.
StampResolvedAgain(merged, updates, tResolved) ==
    IF "status" \in DOMAIN updates /\ updates.status = "resolved"
    THEN [merged EXCEPT !.resolvedAt = tResolved]
    ELSE merged

\* The resolvedAt stamp of updateTicket.
StampResolved(merged, updates, tResolved) ==
    IF /\ "status" \in DOMAIN updates
       /\ updates.status = "resolved"
       /\ merged.resolvedAt = Unset
    THEN [merged EXCEPT !.resolvedAt = tResolved]
    ELSE merged

\* The merge without the status of the updates: only changeTicketStatus's
\* table would decide a status.
MergeUpdateKeepingStatus(ticket, updates, tUpdated) ==
    Merge(Merge(ticket, updates),
          [updatedAt |-> tUpdated, status |-> ticket.status])

\* The merge with the stamp spread first: {...ticket, updatedAt, ...updates}.
MergeUpdateStampFirst(ticket, updates, tUpdated) ==
    Merge(Merge(ticket, [updatedAt |-> tUpdated]), updates)

\* The merge of updateTicket: {...this.tickets[index], ...updates, updatedAt}.
MergeUpdate(ticket, updates, tUpdated) ==
    Merge(Merge(ticket, updates), [updatedAt |-> tUpdated])

\* updateTicket mapping over the array and stamping every ticket it passes.
updateTicketStampingAll(tks, id, updates, tUpdated, tResolved) ==
    LET index == findIndex(tks, id) IN
    IF index = 0 THEN tks
    ELSE [k \in 1..Len(tks) |->
             IF k = index
             THEN StampResolved(MergeUpdate(tks[k], updates, tUpdated),
                                updates, tResolved)
             ELSE [tks[k] EXCEPT !.updatedAt = tUpdated]]

\* updateTicket(id, updates); the array is returned unchanged for null.
updateTicket(tks, id, updates, tUpdated, tResolved) ==
    LET index == findIndex(tks, id) IN
    IF index = 0 THEN tks
    ELSE [tks EXCEPT ![index] =
              StampResolved(MergeUpdate(tks[index], updates, tUpdated),
                            updates, tResolved)]

\* deleteTicket as splice(findIndex(id), 1): for -1 it removes the last ticket.
deleteTicketSplicing(tks, id) ==
    LET index == IF findIndex(tks, id) = 0 THEN Len(tks) ELSE findIndex(tks, id)
    IN [k \in 1..(Len(tks) - 1) |-> IF k < index THEN tks[k] ELSE tks[k + 1]]

\* deleteTicket(id): the filtered array.
deleteTicket(tks, id) == SelectSeq(tks, LAMBDA t : t.id # id)

\* addComment without its null test, falling back on the first ticket.
addCommentWithoutTest(tks, ticketId, comment, commentId, tStamp, tUpdated) ==
    LET index == IF findIndex(tks, ticketId) = 0 THEN 1
                 ELSE findIndex(tks, ticketId)
    IN [tks EXCEPT
           ![index].comments =
               Append(@, [id |-> commentId, ticketId |-> ticketId,
                          author |-> comment.author, content |-> comment.content,
                          isInternal |-> comment.isInternal,
                          timestamp |-> tStamp]),
           ![index].updatedAt = tUpdated]

\* addComment without its last line: updatedAt is left as it was.
addCommentNotStamping(tks, ticketId, comment, commentId, tStamp, tUpdated) ==
    LET index == findIndex(tks, ticketId) IN
    IF index = 0 THEN tks
    ELSE [tks EXCEPT
             ![index].comments =
                 Append(@, [id |-> commentId, ticketId |-> ticketId,
                            author |-> comment.author, content |-> comment.content,
                            isInternal |-> comment.isInternal,
                            timestamp |-> tStamp])]

\* addComment(ticketId, comment) on the first ticket with that id.
addComment(tks, ticketId, comment, commentId, tStamp, tUpdated) ==
    LET index == findIndex(tks, ticketId) IN
    IF index = 0 THEN tks
    ELSE [tks EXCEPT
             ![index].comments =
                 Append(@, [id |-> commentId, ticketId |-> ticketId,
                            author |-> comment.author, content |-> comment.content,
                            isInternal |-> comment.isInternal,
                            timestamp |-> tStamp]),
             ![index].updatedAt = tUpdated]

\* validTransitions with one more entry for open: open may jump to resolved.
validTransitionsSkipping(status) ==
    CASE status = "open" -> {"in-progress", "resolved", "closed"}
      [] status = "in-progress" -> {"waiting", "resolved", "closed"}
      [] status = "waiting" -> {"in-progress", "closed"}
      [] status = "resolved" -> {"closed", "open"}
      [] status = "closed" -> {"open"}

\* validTransitions with nothing allowed from closed.
validTransitionsClosedForGood(status) ==
    CASE status = "open" -> {"in-progress", "closed"}
      [] status = "in-progress" -> {"waiting", "resolved", "closed"}
      [] status = "waiting" -> {"in-progress", "closed"}
      [] status = "resolved" -> {"closed", "open"}
      [] status = "closed" -> {}

\* validTransitions with waiting allowed to go straight to resolved.
validTransitionsFromWaiting(status) ==
    CASE status = "open" -> {"in-progress", "closed"}
      [] status = "in-progress" -> {"waiting", "resolved", "closed"}
      [] status = "waiting" -> {"in-progress", "resolved", "closed"}
      [] status = "resolved" -> {"closed", "open"}
      [] status = "closed" -> {"open"}

\* validTransitions of changeTicketStatus.
validTransitions(status) ==
    CASE status = "open" -> {"in-progress", "closed"}
      [] status = "in-progress" -> {"waiting", "resolved", "closed"}
      [] status = "waiting" -> {"in-progress", "closed"}
      [] status = "resolved" -> {"closed", "open"}
      [] status = "closed" -> {"open"}

\* The boolean changeTicketStatus returns.
changeTicketStatusOk(tks, ticketId, newStatus) ==
    LET index == findIndex(tks, ticketId) IN
    /\ index # 0
    /\ newStatus \in validTransitions(tks[index].status)

\* The array after changeTicketStatus.
changeTicketStatus(tks, ticketId, newStatus, tUpdated, tResolved) ==
    IF changeTicketStatusOk(tks, ticketId, newStatus)
    THEN updateTicket(tks, ticketId, [status |-> newStatus], tUpdated, tResolved)
    ELSE tks

\* getAllTickets(): a copy sorted latest updatedAt first.  Array.prototype.sort
\* is stable: a ticket goes after those updated later and after those updated
\* at the same time that came before it.
getAllTickets(tks) ==
    LET n == Len(tks)
        rank(i) == Cardinality({j \in 1..n :
                       \/ tks[j].updatedAt > tks[i].updatedAt
                       \/ (tks[j].updatedAt = tks[i].updatedAt /\ j < i)})
    IN [k \in 1..n |-> tks[CHOOSE i \in 1..n : rank(i) = k - 1]]

\* getTicketComments(ticketId): the comments of the first ticket with that id,
\* sorted earliest timestamp first (a stable sort); [] when there is none.
getTicketComments(tks, ticketId) ==
    LET index == findIndex(tks, ticketId)
        cs == IF index = 0 THEN << >> ELSE tks[index].comments
        n == Len(cs)
        rank(i) == Cardinality({j \in 1..n :
                       \/ cs[j].timestamp < cs[i].timestamp
                       \/ (cs[j].timestamp = cs[i].timestamp /\ j < i)})
    IN [k \in 1..n |-> cs[CHOOSE i \in 1..n : rank(i) = k - 1]]

\* getUrgentTickets() without the test of the status.
getUrgentTicketsOfAnyStatus(tks) ==
    LET urgent == SelectSeq(tks, LAMBDA t : t.priority = "urgent")
        n == Len(urgent)
        rank(i) == Cardinality({j \in 1..n :
                       \/ urgent[j].createdAt < urgent[i].createdAt
                       \/ (urgent[j].createdAt = urgent[i].createdAt /\ j < i)})
    IN [k \in 1..n |-> urgent[CHOOSE i \in 1..n : rank(i) = k - 1]]

\* getUrgentTickets(): the urgent tickets that are open or in progress, sorted
\* earliest createdAt first (a stable sort of the filtered array).
getUrgentTickets(tks) ==
    LET urgent == SelectSeq(tks, LAMBDA t :
                      /\ t.priority = "urgent"
                      /\ (t.status = "open" \/ t.status = "in-progress"))
        n == Len(urgent)
        rank(i) == Cardinality({j \in 1..n :
                       \/ urgent[j].createdAt < urgent[i].createdAt
                       \/ (urgent[j].createdAt = urgent[i].createdAt /\ j < i)})
    IN [k \in 1..n |-> urgent[CHOOSE i \in 1..n : rank(i) = k - 1]]

\* this.tickets.filter(t => t.status === status)
filterByStatus(tks, status) == SelectSeq(tks, LAMBDA t : t.status = status)

\* this.tickets.filter(t => t.priority === priority)
filterByPriority(tks, priority) == SelectSeq(tks, LAMBDA t : t.priority = priority)

\* this.tickets.filter(t => t.category === category)
filterByCategory(tks, category) == SelectSeq(tks, LAMBDA t : t.category = category)

\* getStatistics() with the in-progress count asking for 'in_progress'.
getStatisticsMisspelt(tks) ==
    [total |-> Len(tks),
     open |-> Len(filterByStatus(tks, "open")),
     inProgress |-> Len(filterByStatus(tks, "in_progress")),
     waiting |-> Len(filterByStatus(tks, "waiting")),
     resolved |-> Len(filterByStatus(tks, "resolved")),
     closed |-> Len(filterByStatus(tks, "closed")),
     byPriority |-> [p \in Priorities |-> Len(filterByPriority(tks, p))],
     byCategory |-> [c \in Categories |-> Len(filterByCategory(tks, c))]]

\* getStatistics(): the counts (averageResolutionTime is not among them).
getStatistics(tks) ==
    [total |-> Len(tks),
     open |-> Len(filterByStatus(tks, "open")),
     inProgress |-> Len(filterByStatus(tks, "in-progress")),
     waiting |-> Len(filterByStatus(tks, "waiting")),
     resolved |-> Len(filterByStatus(tks, "resolved")),
     closed |-> Len(filterByStatus(tks, "closed")),
     byPriority |-> [p \in Priorities |-> Len(filterByPriority(tks, p))],
     byCategory |-> [c \in Categories |-> Len(filterByCategory(tks, c))]]

\* resolvedTickets.reduce((sum, t) => sum + (t.resolvedAt - t.createdAt), 0)
RECURSIVE reduceResolution(_)
reduceResolution(resolvedTickets) ==
    IF resolvedTickets = << >> THEN 0
    ELSE (Head(resolvedTickets).resolvedAt - Head(resolvedTickets).createdAt)
            + reduceResolution(Tail(resolvedTickets))

\* averageResolutionTime taken over the tickets whose status is resolved.
averageResolutionTimeOfResolved(tks) ==
    LET resolvedTickets ==
            SelectSeq(tks, LAMBDA t : t.resolvedAt # Unset /\ t.status = "resolved")
    IN IF Len(resolvedTickets) > 0
       THEN [num |-> reduceResolution(resolvedTickets), den |-> Len(resolvedTickets)]
       ELSE [num |-> 0, den |-> 1]

\* averageResolutionTime of getStatistics(): the quotient num / den, kept as
\* its two terms; 0 is 0 / 1.
averageResolutionTime(tks) ==
    LET resolvedTickets == SelectSeq(tks, LAMBDA t : t.resolvedAt # Unset)
    IN IF Len(resolvedTickets) > 0
       THEN [num |-> reduceResolution(resolvedTickets), den |-> Len(resolvedTickets)]
       ELSE [num |-> 0, den |-> 1]

----------------------------------------------------------------------------
(* StorageService and the document of syncToStorage *)

\* sessionStorage holds no 'tickets_data' entry.
NoDocument == [saved |-> FALSE, text |-> << >>]

\* A property JSON.stringify leaves out: one whose value is undefined.
Undefined(field, value) ==
    \/ field = "resolvedAt" /\ value = Unset
    \/ field = "assignedTo" /\ value = NoText

\* JSON.stringify of one ticket: the properties that have a value.
Stringified(ticket) ==
    [f \in {g \in DOMAIN ticket : ~Undefined(g, ticket[g])} |-> ticket[f]]

\* JSON.stringify of the tickets array.
JSONstringify(tks) == [i \in 1..Len(tks) |-> Stringified(tks[i])]

\* A parsed ticket whose missing assignedTo is read as the empty string.
RevivedDefaultingText(object) ==
    [f \in DOMAIN BlankTicket |->
        IF f \in DOMAIN object THEN object[f]
        ELSE IF f = "resolvedAt" THEN Unset ELSE ""]

\* A parsed ticket as the program reads it: a property the text does not
\* have reads as undefined.
Revived(object) ==
    [f \in DOMAIN BlankTicket |->
        IF f \in DOMAIN object THEN object[f]
        ELSE IF f = "resolvedAt" THEN Unset ELSE NoText]

\* JSON.parse of the stored text, as a tickets array.
JSONparse(text) == [i \in 1..Len(text) |-> Revived(text[i])]

\* JSON.stringify({tickets: this.tickets}) as stored by saveToStorage.
Document(tks) == [saved |-> TRUE, text |-> JSONstringify(tks)]

\* A stored text that is not JSON: JSON.parse throws a SyntaxError on it.
Garbled == [saved |-> TRUE, text |-> <<[syntaxError |-> TRUE]>>]

\* JSON.parse accepts the text.
Parses(text) == \A i \in 1..Len(text) : "syntaxError" \notin DOMAIN text[i]

\* DEFAULT_TICKETS as the module evaluates it when loaded at tLoad: every time
\* in it is Date.now() less a fixed span.
DefaultTicketsAt(tLoad) ==
    [i \in 1..Len(DEFAULT_TICKETS) |->
        LET t == DEFAULT_TICKETS[i]
            later == tLoad - LoadTime
        IN [t EXCEPT
               !.createdAt = @ + later,
               !.updatedAt = @ + later,
               !.resolvedAt = IF @ = Unset THEN Unset ELSE @ + later,
               !.comments = [k \in 1..Len(t.comments) |->
                                [t.comments[k] EXCEPT !.timestamp = @ + later]]]]

\* StorageService.loadFromStorage hands back defaultValue: getItem threw
\* (readOk is FALSE), there is no entry, or JSON.parse threw.
LoadsDefault(document, readOk) ==
    \/ ~readOk
    \/ ~document.saved
    \/ ~Parses(document.text)

\* loadFromStorage without its try/catch: the error of getItem or of
\* JSON.parse reaches the caller.
loadFromStorageThrowsUncaught(document, readOk) ==
    \/ ~readOk
    \/ (document.saved /\ ~Parses(document.text))

\* Whether loadFromStorage throws: the catch block logs and returns
\* defaultValue.
loadFromStorageThrows(document, readOk) == FALSE

\* The constructor testing the array's length: an empty stored array is
\* replaced by the seed tickets.
loadFromStorageReseeding(document, readOk, tLoad) ==
    IF LoadsDefault(document, readOk) \/ Len(JSONparse(document.text)) = 0
    THEN DefaultTicketsAt(tLoad)
    ELSE JSONparse(document.text)

\* TicketsModel.loadFromStorage() on a page loaded at tLoad: the tickets of the
\* stored document, or a copy of DEFAULT_TICKETS when the service hands back
\* null.
loadFromStorage(document, readOk, tLoad) ==
    IF LoadsDefault(document, readOk)
    THEN DefaultTicketsAt(tLoad)
    ELSE JSONparse(document.text)

\* saveToStorage writing only the ticket touched last instead of the array.
saveToStorageDelta(old, tks, writeOk) ==
    IF writeOk
    THEN [saved |-> TRUE, text |-> JSONstringify(SubSeq(tks, Len(tks), Len(tks)))]
    ELSE old

\* saveToStorage: setItem, or the caught error that leaves the entry as it was.
saveToStorage(old, tks, writeOk) == IF writeOk THEN Document(tks) ELSE old

\* saveToStorage without its try/catch: the error of setItem reaches the caller.
saveToStorageThrowsUncaught(writeOk) == ~writeOk

\* Whether saveToStorage throws: the catch block logs the error of setItem and
\* returns.
saveToStorageThrows(writeOk) == FALSE

----------------------------------------------------------------------------
(* TicketsController: listeners *)

\* The callbacks that get subscribed.  "render" is App's forceUpdate; "once"
\* calls its own unsubscribe closure when invoked; "killer" calls the
\* unsubscribe closure of "render" when invoked.
Callbacks == {"render", "once", "killer", "recruiter"}

\* The listener whose unsubscribe closure callback cb calls, as a set.
Unsubscribes(cb) ==
    CASE cb = "once" -> {"once"}
      [] cb = "killer" -> {"render"}
      [] OTHER -> {}

\* The listener that callback cb passes to subscribe when it runs, as a set;
\* it drops the closure subscribe returns.
Subscribes(cb) ==
    CASE cb = "recruiter" -> {"render"}
      [] OTHER -> {}

\* Position of cb in the Set's insertion order, 0 when absent.
IndexOf(ls, cb) ==
    IF \E i \in 1..Len(ls) : ls[i] = cb
    THEN CHOOSE i \in 1..Len(ls) : ls[i] = cb
    ELSE 0

\* this.listeners.add(listener): a Set holds a value once.
SetAdd(ls, cb) == IF IndexOf(ls, cb) # 0 THEN ls ELSE Append(ls, cb)

\* this.listeners.delete(listener)
SetDelete(ls, cb) == SelectSeq(ls, LAMBDA x : x # cb)

\* The forEach cursor after a delete: entries before it shift down.
CursorAfterDelete(ls, cb, cursor) ==
    IF IndexOf(ls, cb) # 0 /\ IndexOf(ls, cb) <= cursor THEN cursor - 1 ELSE cursor

\* An unsubscribe closure of cb is called: one more closure has been used.
UseHandle(hs, cb) == [hs EXCEPT ![cb] = IF @ > 0 THEN @ - 1 ELSE 0]

----------------------------------------------------------------------------
(* Inputs *)

\* An id no ticket has.
MissingId == <<0, 0>>

ExistingIds == {tickets[i].id : i \in 1..Len(tickets)}

\* Readings of Date.now() from the latest one on.
Readings(from) == from..MaxTime

NoCall ==
    [op |-> "none", id |-> MissingId, arg |-> << >>, ok |-> FALSE,
     ret |-> "void", write |-> "none",
     subs |-> << >>, pre |-> << >>, at |-> Unset]

QueryOps ==
    {"getAllTickets", "getTicketById", "searchTickets", "filterByCategory",
     "filterByPriority", "filterByStatus", "getUrgentTickets",
     "getTicketComments", "getStatistics"}

----------------------------------------------------------------------------
(* A ticket object kept by a view *)

\* No ticket object is kept.  Otherwise: snap is the ticket as getTicketById
\* returned it, seen the same object as it reads now, at the place of
\* this.tickets that still holds this very object (0 when none does), shares
\* the place whose ticket has this object's comments array (0 when none has).
NoView == [has |-> FALSE, snap |-> << >>, seen |-> << >>, at |-> 0, shares |-> 0]

\* getTicketById(id): this.tickets.find(...) hands out the store's own object.
ViewOf(tks, id) ==
    [has |-> TRUE, snap |-> tks[findIndex(tks, id)],
     seen |-> tks[findIndex(tks, id)],
     at |-> findIndex(tks, id), shares |-> findIndex(tks, id)]

\* What a model method does to the object kept.  addComment pushes onto the
\* comments array and sets updatedAt of the store's object in place;
\* updateTicket puts a new object in its place, which has the old comments
\* array unless the updates bring one; deleteTicket's filter moves the places.
Aliased(view, op, id, arg, ok, before, after) ==
    IF ~view.has \/ ~ok THEN view
    ELSE LET i == findIndex(before, id)
             place(k) ==
                 IF k = 0 THEN 0
                 ELSE IF before[k].id = id THEN 0
                 ELSE Cardinality({j \in 1..k : before[j].id # id})
         IN CASE op = "addComment" ->
                    IF view.at = i THEN [view EXCEPT !.seen = after[i]]
                    ELSE IF view.shares = i
                         THEN [view EXCEPT !.seen.comments = after[i].comments]
                         ELSE view
              [] op \in {"updateTicket", "changeTicketStatus"} ->
                    [view EXCEPT
                        !.at = IF @ = i THEN 0 ELSE @,
                        !.shares = IF @ = i /\ "comments" \in DOMAIN arg
                                   THEN 0 ELSE @]
              [] op = "deleteTicket" ->
                    [view EXCEPT !.at = place(@), !.shares = place(@)]
              [] OTHER -> view

----------------------------------------------------------------------------
(* Initial state: new TicketsController(TicketsModel.loadFromStorage()) with *)
(* nothing stored yet.                                                       *)

Init ==
    /\ tickets = DEFAULT_TICKETS
    /\ storage = NoDocument
    /\ listeners = << >>
    /\ handles = [cb \in Callbacks |-> 0]
    /\ now = LoadTime
    /\ pc = "idle"
    /\ call = NoCall
    /\ pos = 0
    /\ invoked = << >>
    /\ held = NoView
    /\ spent = [cb \in Callbacks |-> FALSE]

----------------------------------------------------------------------------
(* Controller calls *)

\* What the controller method hands back to its caller: changeTicketStatus
\* returns the model's boolean, the queries return the model's value, the other
\* methods are declared void and drop the model's result.
ControllerReturn(op, ok) ==
    CASE op = "changeTicketStatus" -> IF ok THEN "true" ELSE "false"
      [] op \in QueryOps -> "value"
      [] OTHER -> "void"

\* Entry into a method that ends in this.notify().
Notifying(op, id, arg, ok) ==
    /\ call' = [op |-> op, id |-> id, arg |-> arg, ok |-> ok,
                ret |-> ControllerReturn(op, ok), write |-> "none",
                subs |-> listeners, pre |-> tickets, at |-> now]
    /\ pc' = "sync"
    /\ pos' = 0
    /\ invoked' = << >>
    /\ held' = Aliased(held, op, id, arg, ok, tickets, tickets')
    /\ UNCHANGED <<storage, listeners, handles, spent>>

\* A method that returns without this.notify().
Silent(op, id, arg, ok) ==
    /\ call' = [op |-> op, id |-> id, arg |-> arg, ok |-> ok,
                ret |-> ControllerReturn(op, ok), write |-> "none",
                subs |-> listeners, pre |-> tickets, at |-> now]
    /\ pc' = "return"
    /\ pos' = 0
    /\ invoked' = << >>
    /\ held' = held
    /\ UNCHANGED <<storage, listeners, handles, spent>>

\* TicketsController.createTicket(ticket)
CtlCreateTicket(draft) ==
    /\ pc = "idle"
    /\ Len(tickets) < MaxTickets
    /\ \E tId \in Readings(now), r \in 1..NumRand :
       \E tCreated \in Readings(tId) :
       \E tUpdated \in Readings(tCreated) :
          /\ tickets' = createTicket(tickets, draft, <<tId, r>>, tCreated, tUpdated)
          /\ now' = tUpdated
          /\ Notifying("createTicket", <<tId, r>>, draft, TRUE)

\* TicketsController.updateTicket(id, updates)
CtlUpdateTicket(id, updates) ==
    /\ pc = "idle"
    /\ \E tUpdated \in Readings(now) :
       \E tResolved \in Readings(tUpdated) :
          /\ tickets' = updateTicket(tickets, id, updates, tUpdated, tResolved)
          /\ now' = IF ~hasTicket(tickets, id) THEN now
                    ELSE IF tickets'[findIndex(tickets, id)].resolvedAt = tResolved
                         THEN tResolved ELSE tUpdated
          /\ Notifying("updateTicket", id, updates, hasTicket(tickets, id))

\* TicketsController.deleteTicket(id)
CtlDeleteTicket(id) ==
    /\ pc = "idle"
    /\ tickets' = deleteTicket(tickets, id)
    /\ now' = now
    /\ Notifying("deleteTicket", id, << >>, Len(tickets') < Len(tickets))

\* changeTicketStatus notifying whatever the model returned.
changeStatusNotifiesAlways(success) == TRUE

\* changeTicketStatus with its test turned round: if (!success) this.notify()
changeStatusNotifiesOnFailure(success) == ~success

\* changeTicketStatus of the controller: if (success) this.notify()
changeStatusNotifies(success) == success

\* TicketsController.changeTicketStatus(ticketId, newStatus)
CtlChangeTicketStatus(id, newStatus) ==
    /\ pc = "idle"
    /\ \E tUpdated \in Readings(now) :
       \E tResolved \in Readings(tUpdated) :
          /\ tickets' = changeTicketStatus(tickets, id, newStatus, tUpdated, tResolved)
          /\ LET success == changeTicketStatusOk(tickets, id, newStatus) IN
             /\ now' = IF ~success THEN now
                       ELSE IF tickets'[findIndex(tickets, id)].resolvedAt = tResolved
                            THEN tResolved ELSE tUpdated
             /\ IF changeStatusNotifies(success)
                THEN Notifying("changeTicketStatus", id, [status |-> newStatus], success)
                ELSE Silent("changeTicketStatus", id, [status |-> newStatus], success)

\* TicketsController.addComment(ticketId, comment)
CtlAddComment(id, comment) ==
    /\ pc = "idle"
    /\ hasTicket(tickets, id) =>
          Len(tickets[findIndex(tickets, id)].comments) < MaxComments
    /\ \E tId \in Readings(now), r \in 1..NumRand :
       \E tStamp \in Readings(tId) :
       \E tUpdated \in Readings(tStamp) :
          /\ tickets' = addComment(tickets, id, comment, <<tId, r>>, tStamp, tUpdated)
          /\ now' = IF hasTicket(tickets, id) THEN tUpdated ELSE now
          /\ Notifying("addComment", id, comment, hasTicket(tickets, id))

\* A view calls getTicketById(id) and keeps the ticket it gets (the form's
\* existingTicket, which becomes its formData).
Hold(id) ==
    /\ pc = "idle"
    /\ hasTicket(tickets, id)
    /\ held' = ViewOf(tickets, id)
    /\ call' = [op |-> "getTicketById", id |-> id, arg |-> << >>, ok |-> TRUE,
                ret |-> ControllerReturn("getTicketById", TRUE), write |-> "none",
                subs |-> listeners, pre |-> tickets, at |-> now]
    /\ pc' = "return"
    /\ pos' = 0
    /\ invoked' = << >>
    /\ UNCHANGED <<tickets, storage, listeners, handles, now, spent>>

\* getAllTickets() sorting this.tickets itself instead of a copy.
StoreAfterQuerySortingInPlace(op, tks) ==
    IF op = "getAllTickets" THEN getAllTickets(tks) ELSE tks

\* getUrgentTickets() sorting this.tickets itself before it filters.
StoreAfterQuerySortingUrgent(op, tks) ==
    IF op = "getUrgentTickets"
    THEN LET rank(i) == Cardinality({j \in 1..Len(tks) :
                            \/ tks[j].createdAt < tks[i].createdAt
                            \/ tks[j].createdAt = tks[i].createdAt /\ j < i})
         IN [k \in 1..Len(tks) |-> tks[CHOOSE i \in 1..Len(tks) : rank(i) = k - 1]]
    ELSE tks

\* this.tickets after a read-only method: find and filter leave the array
\* alone, and the sorts work on a copy ([...this.tickets], the filtered array).
StoreAfterQuery(op, tks) == tks

\* The read-only methods: they return what the model computes.
CtlQuery(op) ==
    /\ pc = "idle"
    /\ tickets' = StoreAfterQuery(op, tickets)
    /\ now' = now
    /\ Silent(op, MissingId, << >>, TRUE)

\* notify() without its syncToStorage() line.
SyncStepLeftOut(writeOk) ==
    /\ pc = "sync"
    /\ pc' = "notify"
    /\ UNCHANGED <<tickets, storage, listeners, handles, now, call, pos, invoked,
                   held, spent>>

\* notify(): this.model.syncToStorage(); an error thrown here would leave
\* notify() and the controller method before any listener runs.
SyncStep(writeOk) ==
    /\ pc = "sync"
    /\ storage' = saveToStorage(storage, tickets, writeOk)
    /\ call' = [call EXCEPT !.write = IF writeOk THEN "ok" ELSE "failed"]
    /\ pc' = IF saveToStorageThrows(writeOk) THEN "thrown" ELSE "notify"
    /\ UNCHANGED <<tickets, listeners, handles, now, pos, invoked, held, spent>>

\* notify(): this.listeners.forEach(listener => listener()), one listener.
InvokeStep ==
    /\ pc = "notify"
    /\ pos < Len(listeners)
    /\ LET cb == listeners[pos + 1]
           gone == Unsubscribes(cb)
           come == Subscribes(cb)
       IN /\ invoked' = Append(invoked, cb)
          /\ IF gone = {}
             THEN /\ listeners' = IF come = {} THEN listeners
                                  ELSE SetAdd(listeners, CHOOSE x \in come : TRUE)
                  /\ handles' = handles
                  /\ pos' = pos + 1
             ELSE LET target == CHOOSE x \in gone : TRUE IN
                  /\ listeners' = SetDelete(listeners, target)
                  /\ handles' = UseHandle(handles, target)
                  /\ pos' = CursorAfterDelete(listeners, target, pos + 1)
    /\ UNCHANGED <<tickets, storage, now, pc, call, held, spent>>

\* notify(): forEach has passed the last entry.
EndPass ==
    /\ pc = "notify"
    /\ pos >= Len(listeners)
    /\ pc' = "return"
    /\ UNCHANGED <<tickets, storage, listeners, handles, now, call, pos, invoked,
                   held, spent>>

\* The call returns to its caller.
Return ==
    /\ pc = "return"
    /\ pc' = "idle"
    /\ call' = NoCall
    /\ pos' = 0
    /\ invoked' = << >>
    /\ UNCHANGED <<tickets, storage, listeners, handles, now, held, spent>>

\* The page is loaded again in the same tab: a new TicketsModel from the stored
\* document, or from DEFAULT_TICKETS, and a new TicketsController with no
\* listener.  readOk tells whether sessionStorage.getItem answers.
Reload(readOk) ==
    /\ pc = "idle"
    /\ tickets' = loadFromStorage(storage, readOk, now)
    /\ listeners' = << >>
    /\ handles' = [cb \in Callbacks |-> 0]
    /\ call' = [NoCall EXCEPT !.op = "loadFromStorage",
                              !.arg = [read |-> readOk],
                              !.ok = ~LoadsDefault(storage, readOk),
                              !.ret = "value",
                              !.subs = listeners, !.pre = tickets, !.at = now]
    /\ pc' = IF loadFromStorageThrows(storage, readOk) THEN "thrown" ELSE "return"
    /\ pos' = 0
    /\ invoked' = << >>
    /\ held' = NoView
    /\ spent' = [cb \in Callbacks |-> FALSE]
    /\ UNCHANGED <<storage, now>>

\* Something else in the tab puts a text that is not JSON under 'tickets_data'.
Corrupt ==
    /\ pc = "idle"
    /\ storage' = Garbled
    /\ UNCHANGED <<tickets, listeners, handles, now, pc, call, pos, invoked, held,
                   spent>>

\* StorageService.clearStorage(): removeItem of the keys.
clearStorage ==
    /\ pc = "idle"
    /\ storage' = NoDocument
    /\ UNCHANGED <<tickets, listeners, handles, now, pc, call, pos, invoked, held,
                   spent>>

\* TicketsController.subscribe(listener): the closure returned is kept by the caller.
Subscribe(cb) ==
    /\ pc = "idle"
    /\ handles[cb] < MaxHandles
    /\ listeners' = SetAdd(listeners, cb)
    /\ handles' = [handles EXCEPT ![cb] = @ + 1]
    /\ UNCHANGED <<tickets, storage, now, pc, call, pos, invoked, held, spent>>

\* A closure returned by subscribe(cb) is called for the first time.
Unsubscribe(cb) ==
    /\ pc = "idle"
    /\ handles[cb] > 0
    /\ listeners' = SetDelete(listeners, cb)
    /\ handles' = UseHandle(handles, cb)
    /\ UNCHANGED <<tickets, storage, now, pc, call, pos, invoked, held, spent>>

\* A closure returned by subscribe(cb) is called for the first time by a
\* caller that keeps it afterwards.
UnsubscribeKeeping(cb) ==
    /\ pc = "idle"
    /\ handles[cb] > 0
    /\ listeners' = SetDelete(listeners, cb)
    /\ handles' = UseHandle(handles, cb)
    /\ spent' = [spent EXCEPT ![cb] = TRUE]
    /\ UNCHANGED <<tickets, storage, now, pc, call, pos, invoked, held>>

\* A closure of cb that was called before is called again:
\* this.listeners.delete(listener) once more.
UnsubscribeAgain(cb) ==
    /\ pc = "idle"
    /\ spent[cb]
    /\ listeners' = SetDelete(listeners, cb)
    /\ UNCHANGED <<tickets, storage, handles, now, pc, call, pos, invoked, held,
                   spent>>

----------------------------------------------------------------------------
(* Specifications *)

\* The ticket form filled in, and as getDefaultFormData() leaves it.
FormDraft ==
    [title |-> "Novo", description |-> "detalhe", category |-> "technical",
     priority |-> "medium", status |-> "open", author |-> "Ana", assignedTo |-> ""]

getDefaultFormData ==
    [title |-> "", description |-> "", category |-> "technical",
     priority |-> "medium", status |-> "open", author |-> "", assignedTo |-> ""]

ReplyComment == [author |-> "Suporte", content |-> "resposta", isInternal |-> FALSE]

\* Store: every method addressed to the first seed ticket or to no ticket,
\* with updates that set a status or overwrite a field, one plain subscriber.
StoreInputs ==
    [ids |-> {SeedId(1), MissingId} \cup (Readings(LoadTime) \X (1..NumRand)),
     drafts |-> {FormDraft, getDefaultFormData},
     updates |-> {[status |-> s] : s \in Statuses}
                    \cup {[resolvedAt |-> Unset], [createdAt |-> MaxTime + 1],
                          [id |-> SeedId(2)]},
     statuses |-> Statuses,
     comments |-> {ReplyComment},
     callbacks |-> {"render"},
     queries |-> QueryOps,
     writes |-> {TRUE}]

NextWith(I) ==
    \/ \E d \in I.drafts : CtlCreateTicket(d)
    \/ \E id \in (ExistingIds \cup {MissingId}) \cap I.ids, u \in I.updates :
          CtlUpdateTicket(id, u)
    \/ \E id \in (ExistingIds \cup {MissingId}) \cap I.ids : CtlDeleteTicket(id)
    \/ \E id \in (ExistingIds \cup {MissingId}) \cap I.ids, s \in I.statuses :
          CtlChangeTicketStatus(id, s)
    \/ \E id \in (ExistingIds \cup {MissingId}) \cap I.ids, c \in I.comments :
          CtlAddComment(id, c)
    \/ \E q \in I.queries : CtlQuery(q)
    \/ \E w \in I.writes : SyncStep(w)
    \/ InvokeStep
    \/ EndPass
    \/ Return
    \/ \E cb \in I.callbacks : Subscribe(cb)
    \/ \E cb \in I.callbacks : Unsubscribe(cb)

Next == NextWith(StoreInputs)

Spec == Init /\ [][Next]_vars

\* Notifier: the three kinds of subscriber, calls addressed to the second seed
\* ticket or to no ticket.
NotifyInputs ==
    [ids |-> {SeedId(2), MissingId},
     drafts |-> {FormDraft},
     updates |-> {[status |-> "waiting"]},
     statuses |-> {"in-progress", "resolved"},
     comments |-> {ReplyComment},
     callbacks |-> {"render", "once", "killer"},
     queries |-> {"getAllTickets", "getStatistics"},
     writes |-> {TRUE}]

NextNotify == NextWith(NotifyInputs)

SpecNotify == Init /\ [][NextNotify]_vars

\* Session: the first seed ticket edited and commented, a document write that
\* may fail, and the page loaded again from the document.
SessionInputs ==
    [ids |-> {SeedId(1), MissingId},
     drafts |-> {FormDraft},
     updates |-> {[comments |-> << >>], [title |-> "Login"]},
     statuses |-> {"resolved", "open"},
     comments |-> {ReplyComment},
     callbacks |-> {"render"},
     queries |-> {"getTicketComments"},
     writes |-> {TRUE, FALSE}]

\* The page is loaded again once a document is there to read.
NextSession == NextWith(SessionInputs) \/ (storage.saved /\ Reload(TRUE))

SpecSession == Init /\ [][NextSession]_vars

\* Two comments as an update can bring them, the later one first.
LateComment ==
    [id |-> <<0, 4>>, ticketId |-> SeedId(1), author |-> "Suporte Tecnico",
     content |-> "resolvido", isInternal |-> FALSE, timestamp |-> LoadTime]

EarlyComment ==
    [id |-> <<0, 3>>, ticketId |-> SeedId(1), author |-> "Joao Silva",
     content |-> "ainda falha", isInternal |-> FALSE, timestamp |-> LoadTime - 1]

\* Views: the first seed ticket made urgent, closed and reopened, its comments
\* replaced, commented, listed and kept by a view.
ViewInputs ==
    [ids |-> {SeedId(1), MissingId},
     drafts |-> {FormDraft},
     updates |-> {[priority |-> "urgent"], [comments |-> << >>],
                  [comments |-> <<LateComment, EarlyComment>>]},
     statuses |-> {"closed", "open"},
     comments |-> {ReplyComment},
     callbacks |-> {"render"},
     queries |-> {"getUrgentTickets", "getTicketComments"},
     writes |-> {TRUE}]

NextView ==
    \/ NextWith(ViewInputs)
    \/ \E id \in ExistingIds \cap ViewInputs.ids : Hold(id)

SpecView == Init /\ [][NextView]_vars

\* Loading: the page loaded again whatever the entry holds (nothing, a
\* document, a text that is not JSON) and whether or not it can be read.
LoadInputs ==
    [ids |-> {SeedId(2), MissingId},
     drafts |-> {FormDraft},
     updates |-> {[status |-> "waiting"]},
     statuses |-> {"in-progress"},
     comments |-> {ReplyComment},
     callbacks |-> {"render"},
     queries |-> {"getAllTickets"},
     writes |-> {TRUE, FALSE}]

NextLoad ==
    \/ NextWith(LoadInputs)
    \/ \E readOk \in BOOLEAN : Reload(readOk)
    \/ Corrupt
    \/ clearStorage

SpecLoad == Init /\ [][NextLoad]_vars

\* The form filled in with 'resolved' chosen in its status select.
ResolvedDraft ==
    [title |-> "Novo", description |-> "detalhe", category |-> "technical",
     priority |-> "medium", status |-> "resolved", author |-> "Ana",
     assignedTo |-> ""]

\* The edit form's formData: the first seed ticket as getTicketById gave it
\* when the page was loaded (it has no resolvedAt key), its title retyped.
EditedTicket ==
    LET existingTicket == DEFAULT_TICKETS[1] IN
    [f \in DOMAIN existingTicket \ {"resolvedAt"} |->
        IF f = "title" THEN "Login" ELSE existingTicket[f]]

\* Form: tickets created as resolved, the first seed ticket submitted whole
\* from the edit form or updated with an updatedAt of the caller's, resolved
\* and reopened.
FormInputs ==
    [ids |-> {SeedId(1), MissingId} \cup (Readings(LoadTime) \X (1..NumRand)),
     drafts |-> {ResolvedDraft},
     updates |-> {EditedTicket, [updatedAt |-> MaxTime + 1]},
     statuses |-> {"resolved", "open"},
     comments |-> {ReplyComment},
     callbacks |-> {"render"},
     queries |-> {"getTicketById"},
     writes |-> {TRUE}]

NextForm == NextWith(FormInputs)

SpecForm == Init /\ [][NextForm]_vars

\* Reloading: any ticket deleted, the first seed ticket edited, closed and
\* commented, every document write succeeding, and the page loaded again.
ReloadInputs ==
    [ids |-> {SeedId(1), MissingId},
     drafts |-> {FormDraft},
     updates |-> {[title |-> "Login"]},
     statuses |-> {"closed"},
     comments |-> {ReplyComment},
     callbacks |-> {"render"},
     queries |-> {"getAllTickets"},
     writes |-> {TRUE}]

NextReload ==
    \/ NextWith(ReloadInputs)
    \/ \E id \in ExistingIds : CtlDeleteTicket(id)
    \/ Reload(TRUE)

SpecReload == Init /\ [][NextReload]_vars

\* Registry: a plain subscriber and one that subscribes it when notified,
\* unsubscribe closures called once and again, calls addressed to the second
\* seed ticket or to no ticket.
RegistryInputs ==
    [ids |-> {SeedId(2), MissingId},
     drafts |-> {FormDraft},
     updates |-> {[status |-> "waiting"]},
     statuses |-> {"in-progress"},
     comments |-> {ReplyComment},
     callbacks |-> {"render", "recruiter"},
     queries |-> {"getStatistics"},
     writes |-> {TRUE}]

NextRegistry ==
    \/ NextWith(RegistryInputs)
    \/ \E cb \in RegistryInputs.callbacks : UnsubscribeKeeping(cb)
    \/ \E cb \in RegistryInputs.callbacks : UnsubscribeAgain(cb)

SpecRegistry == Init /\ [][NextRegistry]_vars

----------------------------------------------------------------------------
(* Properties *)

Range(seq) == {seq[i] : i \in 1..Len(seq)}

Count(seq, x) == Cardinality({i \in 1..Len(seq) : seq[i] = x})

MutatingOps ==
    {"createTicket", "updateTicket", "deleteTicket", "changeTicketStatus",
     "addComment"}

\* The call in progress is a mutating call that changed the collection.
StateChanging == call.op \in MutatingOps /\ call.ok

\* The ten edges of the transition table.
ListedEdges ==
    {<<"open", "in-progress">>, <<"open", "closed">>,
     <<"in-progress", "waiting">>, <<"in-progress", "resolved">>,
     <<"in-progress", "closed">>, <<"waiting", "in-progress">>,
     <<"waiting", "closed">>, <<"resolved", "closed">>, <<"resolved", "open">>,
     <<"closed", "open">>}

\* C1: changeStatus(ticketId, newStatus) on an existing ticket returns success
\* exactly when (current status, newStatus) is one of the ten listed edges, and
\* then the ticket has the new status; for every other pair it returns failure
\* and the ticket's status and updatedAt, and the whole collection, are as before.
C1_ChangeStatusIffListedEdge ==
    (/\ pc # "idle"
     /\ call.op = "changeTicketStatus"
     /\ hasTicket(call.pre, call.id))
    => LET i == findIndex(call.pre, call.id) IN
       /\ call.ok <=> <<call.pre[i].status, call.arg.status>> \in ListedEdges
       /\ call.ok => tickets[i].status = call.arg.status
       /\ ~call.ok => /\ tickets[i].status = call.pre[i].status
                      /\ tickets[i].updatedAt = call.pre[i].updatedAt
                      /\ tickets = call.pre

\* C1 witness: changeStatus(open -> resolved) on an existing ticket has just
\* returned failure.
C1_Witness ==
    /\ pc = "return"
    /\ call.op = "changeTicketStatus"
    /\ ~call.ok
    /\ hasTicket(call.pre, call.id)
    /\ call.pre[findIndex(call.pre, call.id)].status = "open"
    /\ call.arg.status = "resolved"

\* C2: once a ticket's resolvedAt is set, no later mutation (update, changeStatus,
\* addComment) clears it or changes its value while the ticket exists.
C2_ResolvedAtNeverChanges ==
    [][Len(tickets') = Len(tickets)
       => \A i \in 1..Len(tickets) :
             tickets[i].resolvedAt # Unset
                => tickets'[i].resolvedAt = tickets[i].resolvedAt]_vars

\* C3: a successful changeStatus stamps resolvedAt with the time of the call
\* when it is the first transition into resolved (resolvedAt unset before), leaves
\* resolvedAt unset when the ticket moves elsewhere, and keeps the value already
\* stamped through every later transition, a second transition into resolved
\* included.
C3_FirstResolutionStampKept ==
    (pc # "idle" /\ call.op = "changeTicketStatus" /\ call.ok)
    => LET i == findIndex(call.pre, call.id)
           before == call.pre[i].resolvedAt
           after == tickets[i].resolvedAt
       IN /\ before # Unset => after = before
          /\ (before = Unset /\ call.arg.status = "resolved")
                => after # Unset /\ call.at <= after /\ after = now
          /\ (before = Unset /\ call.arg.status # "resolved")
                => after = Unset

\* C3 witness: a ticket resolved earlier and since reopened has just been moved
\* to resolved again, at a later time than its stamp.
C3_Witness ==
    /\ pc = "sync"
    /\ call.op = "changeTicketStatus"
    /\ call.ok
    /\ call.arg.status = "resolved"
    /\ LET i == findIndex(call.pre, call.id) IN
       /\ call.pre[i].status = "in-progress"
       /\ call.pre[i].resolvedAt # Unset
       /\ tickets[i].resolvedAt < tickets[i].updatedAt

C5_DuplicateRegistrationsIndependent ==
    pc = "idle" => \A cb \in Callbacks : Count(listeners, cb) = handles[cb]

\* C6: every callback registered when a notification pass starts is invoked in
\* that pass, whatever the callbacks unsubscribe while it runs.
C6_PassInvokesSnapshot ==
    (pc = "return" /\ StateChanging)
       => \A cb \in Range(call.subs) : Count(invoked, cb) >= 1

\* The collection shows the effect of the state-changing call in progress.
Applied ==
    LET i == findIndex(call.pre, call.id) IN
    CASE call.op = "createTicket" ->
            /\ Len(tickets) = Len(call.pre) + 1
            /\ tickets[Len(tickets)].id = call.id
      [] call.op = "deleteTicket" ->
            /\ Len(tickets) < Len(call.pre)
            /\ ~hasTicket(tickets, call.id)
      [] call.op = "changeTicketStatus" -> tickets[i].status = call.arg.status
      [] call.op = "updateTicket" ->
            "status" \in DOMAIN call.arg => tickets[i].status = call.arg.status
      [] call.op = "addComment" ->
            Len(tickets[i].comments) = Len(call.pre[i].comments) + 1

\* C7: in a state-changing mutating call the mutation is in the collection
\* before the document is written and before any listener runs, no listener
\* runs before the document is written, the document written is the collection
\* as the mutation left it, the listeners run in registration order, and none
\* still registered is left out when the call returns.
C7_ApplyThenSyncThenListeners ==
    /\ (pc # "idle" /\ StateChanging) => Applied
    /\ pc = "sync" => invoked = << >>
    /\ (pc \in {"notify", "return"} /\ StateChanging)
          => storage = Document(tickets)
    /\ \A i, j \in 1..Len(invoked) :
          i < j => /\ IndexOf(call.subs, invoked[i]) # 0
                   /\ IndexOf(call.subs, invoked[i]) < IndexOf(call.subs, invoked[j])
    /\ (pc = "return" /\ StateChanging)
          => \A cb \in Range(listeners) : cb \in Range(invoked)

\* C7 witness: two listeners have run, in registration order, after the
\* document of a new ticket was written.
C7_Witness ==
    /\ pc = "return"
    /\ call.op = "createTicket"
    /\ Len(invoked) = 2
    /\ invoked = call.subs
    /\ storage = Document(tickets)

\* C8: every ticket has updatedAt >= createdAt after every mutation.
C8_UpdatedNotBeforeCreated ==
    \A i \in 1..Len(tickets) : tickets[i].updatedAt >= tickets[i].createdAt

\* C9: no two tickets of the collection share an id, and no operation changes
\* the id of a ticket that stays in the collection.
C9_IdUniqueAndImmutable ==
    [][/\ \A i, j \in 1..Len(tickets') :
             tickets'[i].id = tickets'[j].id => i = j
       /\ Len(tickets') = Len(tickets)
             => \A i \in 1..Len(tickets) : tickets'[i].id = tickets[i].id]_vars

\* C10: create with an empty title, description or author fails and adds no
\* ticket; addComment with empty content fails and appends no comment.
C10_EmptyDraftRejected ==
    [][/\ (/\ pc = "idle"
           /\ call'.op = "createTicket"
           /\ \/ call'.arg.title = ""
              \/ call'.arg.description = ""
              \/ call'.arg.author = "")
          => ~call'.ok /\ tickets' = tickets
       /\ (pc = "idle" /\ call'.op = "addComment" /\ call'.arg.content = "")
          => ~call'.ok /\ tickets' = tickets]_vars

IsPrefix(short, long) ==
    /\ Len(short) <= Len(long)
    /\ \A k \in 1..Len(short) : long[k] = short[k]

\* C11: comments are append-only: after any store operation that keeps the
\* tickets (update with any fields, changeStatus, addComment), the comment
\* sequence of every ticket has its previous comment sequence as a prefix.
C11_CommentsAppendOnly ==
    (/\ pc # "idle"
     /\ call.op \in {"updateTicket", "changeTicketStatus", "addComment"}
     /\ Len(tickets) = Len(call.pre))
    => \A i \in 1..Len(tickets) :
          IsPrefix(call.pre[i].comments, tickets[i].comments)

\* C12: in every reachable state statistics().total is the number of tickets
\* listAll() returns, the five per-status counts sum to total, the four
\* byPriority counts sum to total and the six byCategory counts sum to total,
\* every key being present with a natural number.
C12_StatisticsSumToTotal ==
    LET st == getStatistics(tickets) IN
    /\ st.total = Len(getAllTickets(tickets))
    /\ st.open + st.inProgress + st.waiting + st.resolved + st.closed = st.total
    /\ DOMAIN st.byPriority = Priorities
    /\ DOMAIN st.byCategory = Categories
    /\ \A p \in Priorities : st.byPriority[p] \in Nat
    /\ \A c \in Categories : st.byCategory[c] \in Nat
    /\ st.byPriority["low"] + st.byPriority["medium"] + st.byPriority["high"]
          + st.byPriority["urgent"] = st.total
    /\ st.byCategory["technical"] + st.byCategory["billing"]
          + st.byCategory["account"] + st.byCategory["feature"]
          + st.byCategory["bug"] + st.byCategory["other"] = st.total

\* C12 witness: statistics is asked for over three tickets, one of them in
\* progress and one resolved, none closed and none of category account.
C12_Witness ==
    /\ pc = "return"
    /\ call.op = "getStatistics"
    /\ LET st == getStatistics(tickets) IN
       /\ st.total = 3
       /\ st.inProgress = 1
       /\ st.resolved = 1
       /\ st.closed = 0
       /\ st.byCategory["account"] = 0

\* C13: update(id, fields) stamps resolvedAt = now whenever the merged ticket
\* is resolved with resolvedAt unset; so after any update that leaves an
\* existing ticket resolved, the ticket has resolvedAt set.
C13_UpdateStampsMergedResolved ==
    (pc # "idle" /\ call.op = "updateTicket" /\ call.ok)
    => LET i == findIndex(call.pre, call.id) IN
       /\ tickets[i].status = "resolved" => tickets[i].resolvedAt # Unset
       /\ (/\ tickets[i].status = "resolved"
           /\ Merge(call.pre[i], call.arg).resolvedAt = Unset)
             => tickets[i].resolvedAt = now

\* C14: update(id, {status: s}) on an existing ticket sets its status to s
\* whatever its current status, the pairs the transition table does not list
\* included.
C14_UpdateSetsAnyStatus ==
    (/\ pc # "idle"
     /\ call.op = "updateTicket"
     /\ call.ok
     /\ "status" \in DOMAIN call.arg)
    => tickets[findIndex(call.pre, call.id)].status = call.arg.status

\* C14 witness: update has moved an open ticket to waiting, which changeStatus
\* rejects.
C14_Witness ==
    /\ pc = "sync"
    /\ call.op = "updateTicket"
    /\ call.ok
    /\ call.arg = [status |-> "waiting"]
    /\ LET i == findIndex(call.pre, call.id) IN
       /\ call.pre[i].status = "open"
       /\ tickets[i].status = "waiting"
    /\ ~changeTicketStatusOk(call.pre, call.id, "waiting")

\* C15: delete(id) of an existing ticket returns true, the ticket is no longer
\* in listAll(), getComments(id) is empty and the other tickets stay as they
\* were; delete of an id not in the collection returns false and leaves the
\* collection unchanged.
C15_DeleteRemovesOrLeaves ==
    (pc # "idle" /\ call.op = "deleteTicket")
    => IF hasTicket(call.pre, call.id)
       THEN /\ call.ok
            /\ \A k \in 1..Len(getAllTickets(tickets)) :
                  getAllTickets(tickets)[k].id # call.id
            /\ getTicketComments(tickets, call.id) = << >>
            /\ tickets = SelectSeq(call.pre, LAMBDA t : t.id # call.id)
       ELSE /\ ~call.ok
            /\ tickets = call.pre

\* C15 witness: a ticket that had a comment has been deleted, and a delete of
\* an unknown id has left three tickets in place.
C15_Witness ==
    /\ pc = "return"
    /\ call.op = "deleteTicket"
    /\ call.ok
    /\ getTicketComments(call.pre, call.id) # << >>
    /\ getTicketComments(tickets, call.id) = << >>
    /\ Len(tickets) = Len(call.pre) - 1

\* All the comments the store holds.
AllComments(tks) ==
    UNION {Range(tks[i].comments) : i \in 1..Len(tks)}

\* C16: addComment to an id not in the collection returns the not-found result
\* and creates no comment anywhere; addComment to an existing ticket appends
\* one comment, to that ticket, carrying that ticket's id.
C16_NoOrphanComment ==
    (pc # "idle" /\ call.op = "addComment")
    => IF hasTicket(call.pre, call.id)
       THEN LET i == findIndex(call.pre, call.id)
                added == tickets[i].comments[Len(tickets[i].comments)]
            IN /\ call.ok
               /\ added.ticketId = tickets[i].id
               /\ added.ticketId = call.id
               /\ AllComments(tickets) = AllComments(call.pre) \cup {added}
       ELSE /\ ~call.ok
            /\ tickets = call.pre
            /\ AllComments(tickets) = AllComments(call.pre)

\* C16 witness: addComment to an unknown id has returned, the comments being
\* as they were.
C16_Witness ==
    /\ pc = "return"
    /\ call.op = "addComment"
    /\ call.id = MissingId
    /\ ~call.ok
    /\ Len(tickets) > 0
    /\ AllComments(tickets) = AllComments(call.pre)

\* C17: update addressed to an id not in the collection is a failure reported
\* to the caller (a not-found result) and changes no ticket.
C17_UpdateMissingReported ==
    (pc # "idle" /\ call.op = "updateTicket" /\ ~hasTicket(call.pre, call.id))
    => /\ call.ret \in {"null", "false"}
       /\ tickets = call.pre

\* C18: a failed write of the document never reaches the caller of the
\* mutation: no error leaves the call, the change stays in the collection and
\* the subscribers are notified.
C18_WriteFailureSwallowed ==
    /\ pc # "thrown"
    /\ (pc \in {"notify", "return"} /\ call.write = "failed")
          => /\ StateChanging => Applied
             /\ pc = "return"
                   => \A cb \in Range(call.subs) \cap Range(listeners) :
                         Count(invoked, cb) = 1

\* C18 witness: a state-changing call returns after a failed write, its
\* subscriber notified and the document left behind the collection.
C18_Witness ==
    /\ pc = "return"
    /\ call.write = "failed"
    /\ StateChanging
    /\ invoked = <<"render">>
    /\ storage # Document(tickets)
    /\ tickets # call.pre

\* Every stamp of the state-changing call in progress is in the collection.
FullyApplied ==
    LET i == findIndex(call.pre, call.id) IN
    CASE call.op = "createTicket" ->
            LET t == tickets[Len(tickets)] IN
            /\ t.id = call.id
            /\ t.createdAt >= call.at /\ t.updatedAt >= t.createdAt
            /\ t.updatedAt = now
            /\ t.comments = << >>
      [] call.op = "deleteTicket" -> ~hasTicket(tickets, call.id)
      [] call.op = "changeTicketStatus" ->
            /\ tickets[i].status = call.arg.status
            /\ tickets[i].updatedAt >= call.at
            /\ tickets[i].updatedAt <= now
            /\ call.arg.status = "resolved" => tickets[i].resolvedAt # Unset
      [] call.op = "updateTicket" ->
            /\ \A f \in DOMAIN call.arg \ {"updatedAt", "resolvedAt"} :
                  tickets[i][f] = call.arg[f]
            /\ tickets[i].updatedAt >= call.at
            /\ tickets[i].updatedAt <= now
      [] call.op = "addComment" ->
            LET cs == tickets[i].comments IN
            /\ Len(cs) = Len(call.pre[i].comments) + 1
            /\ cs[Len(cs)].timestamp >= call.at
            /\ tickets[i].updatedAt >= cs[Len(cs)].timestamp
            /\ tickets[i].updatedAt = now

\* C19: whenever a subscriber callback has run, the mutation that triggered it
\* is fully applied (status, updatedAt and resolvedAt stamped) and, when the
\* write succeeded, the stored document is the whole current collection.
C19_CallbackSeesWholeMutation ==
    (Len(invoked) > 0 /\ StateChanging)
    => /\ FullyApplied
       /\ call.write = "ok"
             => /\ storage = Document(tickets)
                /\ Len(storage.text) = Len(tickets)

\* C19 witness: the subscriber has run for a first resolution whose write
\* succeeded.
C19_Witness ==
    /\ pc = "notify"
    /\ invoked = <<"render">>
    /\ call.op = "changeTicketStatus"
    /\ call.arg.status = "resolved"
    /\ call.write = "ok"
    /\ Len(tickets) = 3
    /\ LET i == findIndex(call.pre, call.id) IN
       /\ call.pre[i].resolvedAt = Unset
       /\ tickets[i].resolvedAt = now

\* C20: the collection saved and then loaded is equal to the saved one: the
\* same tickets in the same order with the same comments and field values,
\* an absent assignedTo or resolvedAt staying absent.
C20_SaveLoadRoundTrip ==
    /\ loadFromStorage(saveToStorage(storage, tickets, TRUE), TRUE, now) = tickets
    /\ (call.op = "loadFromStorage" /\ storage = Document(call.pre))
          => tickets = call.pre

\* C20 witness: the page has been loaded again from the document of a
\* collection that has a ticket without assignedTo, one without resolvedAt
\* and one with a comment.
C20_Witness ==
    /\ pc = "return"
    /\ call.op = "loadFromStorage"
    /\ storage = Document(call.pre)
    /\ tickets = call.pre
    /\ \E i \in 1..Len(tickets) : tickets[i].assignedTo = NoText
    /\ \E i \in 1..Len(tickets) : tickets[i].resolvedAt = Unset
    /\ \E i \in 1..Len(tickets) : Len(tickets[i].comments) > 0
    /\ tickets # DEFAULT_TICKETS

\* C23: create(draft) adds exactly one ticket, at the end: its id is the id of
\* no ticket already there, its createdAt equals its updatedAt, it has no
\* comment and its other fields are the draft's.
C23_CreateAddsFreshTicket ==
    (pc # "idle" /\ call.op = "createTicket")
    => LET t == tickets[Len(tickets)] IN
       /\ Len(tickets) = Len(call.pre) + 1
       /\ SubSeq(tickets, 1, Len(call.pre)) = call.pre
       /\ \A i \in 1..Len(call.pre) : call.pre[i].id # t.id
       /\ t.createdAt = t.updatedAt
       /\ t.createdAt >= call.at
       /\ t.comments = << >>
       /\ \A f \in DOMAIN call.arg \ {"id", "createdAt", "updatedAt", "comments"} :
             t[f] = call.arg[f]

\* C24: every ticket with resolvedAt set has resolvedAt >= createdAt, so
\* averageResolutionTime is never negative.
C24_ResolutionTimeNotNegative ==
    /\ \A i \in 1..Len(tickets) :
          tickets[i].resolvedAt # Unset
             => tickets[i].resolvedAt >= tickets[i].createdAt
    /\ averageResolutionTime(tickets).num >= 0

\* The sum of resolvedAt - createdAt over the tickets at the positions of a set.
RECURSIVE SumOfResolutions(_)
SumOfResolutions(positions) ==
    IF positions = {} THEN 0
    ELSE LET i == CHOOSE k \in positions : TRUE IN
         (tickets[i].resolvedAt - tickets[i].createdAt)
            + SumOfResolutions(positions \ {i})

\* C25: averageResolutionTime is the sum of resolvedAt - createdAt over the
\* tickets that have resolvedAt set, whatever their status, divided by their
\* number, and 0 when no ticket has resolvedAt set.
C25_AverageOverStampedTickets ==
    LET stamped == {i \in 1..Len(tickets) : tickets[i].resolvedAt # Unset}
        avg == averageResolutionTime(tickets)
    IN IF stamped = {}
       THEN avg.num = 0 /\ avg.den = 1
       ELSE /\ avg.den = Cardinality(stamped)
            /\ avg.num = SumOfResolutions(stamped)

\* C25 witness: statistics is asked for while a ticket resolved earlier and
\* reopened since still counts, next to one that is resolved.
C25_Witness ==
    /\ pc = "return"
    /\ call.op = "getStatistics"
    /\ averageResolutionTime(tickets).den = 2
    /\ averageResolutionTime(tickets).num > 0
    /\ \E i \in 1..Len(tickets) :
          tickets[i].resolvedAt # Unset /\ tickets[i].status = "open"

\* C26: listAll() returns every ticket of the collection exactly once, latest
\* updatedAt first, and leaves the store's own collection as it was.
C26_ListAllSortedCopy ==
    (pc # "idle" /\ call.op = "getAllTickets")
    => LET all == getAllTickets(call.pre) IN
       /\ Len(all) = Len(call.pre)
       /\ \A i \in 1..Len(call.pre) :
             Count(all, call.pre[i]) = Count(call.pre, call.pre[i])
       /\ \A i, j \in 1..Len(all) :
             i < j => all[i].updatedAt >= all[j].updatedAt
       /\ tickets = call.pre

\* C26 witness: listAll() has returned three tickets in another order than the
\* store keeps them.
C26_Witness ==
    /\ pc = "return"
    /\ call.op = "getAllTickets"
    /\ Len(tickets) = 3
    /\ getAllTickets(call.pre) # call.pre
    /\ tickets = call.pre

\* The statuses a run of successful changeStatus calls can lead to.
RECURSIVE ClosureOfTransitions(_)
ClosureOfTransitions(reached) ==
    LET further == reached \cup UNION {validTransitions(s) : s \in reached}
    IN IF further = reached THEN reached ELSE ClosureOfTransitions(further)

\* C29: the transition graph of changeStatus has no terminal state: from every
\* status, and so from the status of every ticket, every other status is
\* reached by some run of successful changeStatus calls.
C29_NoTerminalStatus ==
    /\ \A s \in Statuses :
          Statuses \ {s} \subseteq ClosureOfTransitions(validTransitions(s))
    /\ \A i \in 1..Len(tickets) :
          Statuses \subseteq ClosureOfTransitions({tickets[i].status})

\* C29 witness: a closed ticket has been reopened by changeStatus.
C29_Witness ==
    /\ pc = "sync"
    /\ call.op = "changeTicketStatus"
    /\ call.ok
    /\ call.pre[findIndex(call.pre, call.id)].status = "closed"
    /\ tickets[findIndex(call.pre, call.id)].status = "open"

\* C30: every successful changeStatus into resolved starts from in-progress,
\* and so does every successful changeStatus into waiting.
C30_ResolvedOnlyFromInProgress ==
    (/\ pc # "idle"
     /\ call.op = "changeTicketStatus"
     /\ call.ok
     /\ call.arg.status \in {"resolved", "waiting"})
    => call.pre[findIndex(call.pre, call.id)].status = "in-progress"

\* C30 witness: a ticket in progress has been put on waiting by changeStatus.
C30_Witness ==
    /\ pc = "sync"
    /\ call.op = "changeTicketStatus"
    /\ call.ok
    /\ call.arg.status = "waiting"
    /\ call.pre[findIndex(call.pre, call.id)].status = "in-progress"
    /\ tickets[findIndex(call.pre, call.id)].status = "waiting"

\* What urgentOpenTickets() is to contain.
UrgentOpen(t) ==
    t.priority = "urgent" /\ t.status \in {"open", "in-progress"}

\* C22: urgentOpenTickets() returns exactly the tickets that are urgent and
\* open or in progress, each as often as the collection holds it and no other,
\* earliest createdAt first.
C22_UrgentOpenExactlySorted ==
    LET urgent == getUrgentTickets(tickets) IN
    /\ \A k \in 1..Len(urgent) : UrgentOpen(urgent[k])
    /\ \A i \in 1..Len(tickets) :
          UrgentOpen(tickets[i])
             => Count(urgent, tickets[i]) = Count(tickets, tickets[i])
    /\ Len(urgent) = Cardinality({i \in 1..Len(tickets) : UrgentOpen(tickets[i])})
    /\ \A j, k \in 1..Len(urgent) :
          j < k => urgent[j].createdAt <= urgent[k].createdAt

\* C22 witness: urgentOpenTickets() is asked for while the collection holds two
\* such tickets, the later created one first, and a ticket that is not one.
C22_Witness ==
    /\ pc = "return"
    /\ call.op = "getUrgentTickets"
    /\ Len(tickets) = 3
    /\ getUrgentTickets(tickets) = <<tickets[2], tickets[1]>>
    /\ tickets[1].createdAt > tickets[2].createdAt

C27_SortWitness ==
    /\ pc = "return"
    /\ call.op = "getTicketComments"
    /\ tickets[1].comments = <<LateComment, EarlyComment>>
    /\ getTicketComments(tickets, tickets[1].id) = <<EarlyComment, LateComment>>

\* C28: a ticket a view obtained from getById before a later mutation is not
\* altered by that mutation: it reads as it did when it was obtained.
C28_ViewNotAliased ==
    held.has => held.seen = held.snap

\* C21: load hands back the default when the key is absent, when reading
\* fails and when the stored text is malformed; no error leaves it, and the
\* store built from such a load starts from the default seed collection.
C21_LoadFallsBackToDefault ==
    /\ pc # "thrown"
    /\ (/\ pc = "return"
        /\ call.op = "loadFromStorage"
        /\ \/ ~call.arg.read
           \/ storage = NoDocument
           \/ storage = Garbled)
          => /\ ~call.ok
             /\ tickets = DefaultTicketsAt(now)
             /\ Len(tickets) = Len(DEFAULT_TICKETS)
             /\ \A i \in 1..Len(tickets) : tickets[i].id = DEFAULT_TICKETS[i].id

\* C21 witness: the page has been loaded over a text that is not JSON, after
\* the collection had moved away from the seed tickets.
C21_Witness ==
    /\ pc = "return"
    /\ call.op = "loadFromStorage"
    /\ call.arg.read
    /\ storage = Garbled
    /\ Len(call.pre) < Len(DEFAULT_TICKETS)
    /\ tickets = DefaultTicketsAt(now)

\* C32: update, delete and addComment addressed to an id that is not in the
\* collection write no document and notify no subscriber: such a call goes
\* straight to its return.
C32_MissingIdNeitherWritesNorNotifies ==
    (/\ pc # "idle"
     /\ call.op \in {"updateTicket", "deleteTicket", "addComment"}
     /\ ~hasTicket(call.pre, call.id))
    => /\ pc = "return"
       /\ call.write = "none"
       /\ invoked = << >>

\* C33: changeStatus addressed to an id that is not in the collection returns
\* failure, leaves the collection and the clock as they were, writes no
\* document and invokes no subscriber.
C33_ChangeStatusMissingIdInert ==
    (/\ pc # "idle"
     /\ call.op = "changeTicketStatus"
     /\ ~hasTicket(call.pre, call.id))
    => /\ ~call.ok
       /\ call.ret = "false"
       /\ tickets = call.pre
       /\ now = call.at
       /\ pc = "return"
       /\ call.write = "none"
       /\ invoked = << >>
       /\ listeners = call.subs

\* C33 witness: changeStatus on an absent id has returned failure while two
\* subscribers were registered and a document of an earlier mutation exists.
C33_Witness ==
    /\ pc = "return"
    /\ call.op = "changeTicketStatus"
    /\ call.id = MissingId
    /\ ~hasTicket(call.pre, call.id)
    /\ call.ret = "false"
    /\ Len(listeners) = 2
    /\ storage = Document(tickets)

\* The tickets of tks whose id is not id, in their order.
OtherTickets(tks, id) == SelectSeq(tks, LAMBDA t : t.id # id)

\* C38: update, changeStatus and addComment addressed to one id leave every
\* ticket that had a different id where it was and as it was, and add or
\* remove none; delete leaves exactly the tickets that had a different id, as
\* they were and in their order.
C38_OtherTicketsUntouched ==
    (/\ pc # "idle"
     /\ call.op \in {"updateTicket", "changeTicketStatus", "addComment",
                     "deleteTicket"})
    => /\ call.op # "deleteTicket"
             => /\ Len(tickets) = Len(call.pre)
                /\ \A k \in 1..Len(call.pre) :
                      call.pre[k].id # call.id => tickets[k] = call.pre[k]
       /\ call.op = "deleteTicket"
             => tickets = OtherTickets(call.pre, call.id)

\* C38 witness: an update has changed the first of three tickets and the other
\* two are as they were.
C38_Witness ==
    /\ pc = "sync"
    /\ call.op = "updateTicket"
    /\ call.ok
    /\ Len(tickets) = 3
    /\ call.pre[1].id = call.id
    /\ tickets[1] # call.pre[1]
    /\ tickets[2] = call.pre[2]
    /\ tickets[3] = call.pre[3]

C31_ResolvedHasResolvedAt ==
    \A i \in 1..Len(tickets) :
       tickets[i].status = "resolved" => tickets[i].resolvedAt # Unset

\* C37: update on an existing ticket leaves updatedAt at a reading of the clock
\* taken during the call, whatever updatedAt the fields passed carry, and at the
\* time the call ends unless the call went on to stamp resolvedAt after it; a
\* successful changeStatus does the same.
C37_UpdateStampsUpdatedAt ==
    (/\ pc # "idle"
     /\ call.op \in {"updateTicket", "changeTicketStatus"}
     /\ call.ok)
    => LET i == findIndex(call.pre, call.id) IN
       /\ call.at <= tickets[i].updatedAt
       /\ tickets[i].updatedAt <= now
       /\ tickets[i].resolvedAt = call.pre[i].resolvedAt
             => tickets[i].updatedAt = now

\* C37 witness: the edit form has submitted the whole ticket it read earlier,
\* updatedAt included, after the clock moved on, and the ticket's updatedAt is
\* the time of the call, not the form's.
C37_Witness ==
    /\ pc = "sync"
    /\ call.op = "updateTicket"
    /\ call.ok
    /\ call.arg = EditedTicket
    /\ LET i == findIndex(call.pre, call.id) IN
       /\ tickets[i].title = "Login"
       /\ call.arg.updatedAt < call.pre[i].updatedAt
       /\ call.pre[i].updatedAt < tickets[i].updatedAt
       /\ tickets[i].updatedAt = now

\* C36: once a document has been written, a store constructed from the stored
\* document holds the collection the running store holds, whenever no call is
\* in progress; the page loaded again has that collection, and after every
\* ticket has been deleted it has none, not the seed tickets.
C36_ReloadEquivalence ==
    /\ (pc = "idle" /\ storage.saved)
          => loadFromStorage(storage, TRUE, now) = tickets
    /\ (pc = "return" /\ call.op = "loadFromStorage" /\ storage.saved)
          => /\ tickets = call.pre
             /\ Len(call.pre) = 0 => tickets = << >>

\* C36 witness: the page has been loaded again after the last ticket was
\* deleted, and the collection is empty.
C36_Witness ==
    /\ pc = "return"
    /\ call.op = "loadFromStorage"
    /\ storage.saved
    /\ Len(call.pre) = 0
    /\ tickets = << >>

\* C34: a notification pass invokes only callbacks that were registered when
\* it started: a callback that another callback registers while the pass runs
\* is not invoked by that pass.
C34_PassSkipsCallbackAddedMeanwhile ==
    pc \in {"notify", "return"}
       => \A cb \in Range(invoked) : cb \in Range(call.subs)

\* C35: a call of an unsubscribe closure leaves its callback out of the
\* registry and every other callback's registration as it was, and a closure
\* called again changes nothing.
C35_UnsubscribeOnceForAll ==
    [][\A cb \in Callbacks :
          /\ (Unsubscribe(cb) \/ UnsubscribeKeeping(cb))
                => /\ cb \notin Range(listeners')
                   /\ \A other \in Callbacks \ {cb} :
                         Count(listeners', other) = Count(listeners, other)
          /\ UnsubscribeAgain(cb) => listeners' = listeners]_vars

====
